---- MODULE Spec2Model ----
(***************************************************************************)
(* LabelMed: a single-box annotation tool (src/main.py).                   *)
(*                                                                         *)
(* The model covers the ImageLabel widget state (_pixmap, image_path,      *)
(* center_point), the MainWindow slots open_image and save_json, the       *)
(* start-up sequence of main(), the image files on disk and the exported   *)
(* annotation file.                                                        *)
(***************************************************************************)
EXTENDS Integers, Sequences, FiniteSets, TLC

VARIABLES pc, _pixmap, image_path, center_point, disk, json, msgs, raised,
          op, lastLeft

vars == <<pc, _pixmap, image_path, center_point, disk, json, msgs, raised,
          op, lastLeft>>

(* ---------------------------------------------------------------------- *)
(* Values                                                                  *)
(* ---------------------------------------------------------------------- *)

\* Python's None; every optional value is a tuple, None the empty one.
None == <<>>

\* ImageLabel.RECT_SIZE
RECT_SIZE == 600

\* Neighbourhood radius of the click locations explored around each anchor.
MaxDelta == 1

\* Image files are <<directory, file name>>.
PathA == <<"img", "a.png">>
PathB == <<"img", "b.jpg">>
Paths == {PathA, PathB}

\* Path(...).name : the final path component.
PathName(p) == p[Len(p)]

\* Byte contents another program may put into an image file: two decodable
\* images and one byte string that is not an image.
Contents == {"imgA", "imgB", "garbage"}

\* Pixel dimensions of the raster a byte content decodes to (None: QPixmap
\* is null).
Decode(c) ==
    CASE c = "imgA" -> <<800, 600>>
      [] c = "imgB" -> <<400, 250>>
      [] c = "imgC" -> <<1, 1>>
      [] c = "imgD" -> <<601, 599>>
      [] OTHER      -> None

\* base64.b64encode(bytes).decode(): the text that encodes the bytes.
B64Encode(c) == <<"b64", c>>
B64Decode(t) == t[2]

\* float(n) of an int: the float with the same value (exact below 2^53).
Float(n) == <<"float", n>>
FloatVal(f) == f[2]

Max(a, b) == IF a >= b THEN a ELSE b
Min(a, b) == IF a <= b THEN a ELSE b

Buttons == {"LeftButton", "RightButton"}

\* Click locations of the session specification.  event.pos() is relative
\* to the widget and is not limited to the widget's rectangle (a press while
\* another button holds the mouse grab reports a position outside it).
Pts == {<<0, 0>>, <<10, 10>>, <<400, 300>>, <<-301, 10>>}

\* Click locations of the geometry specification.
Anchors == {<<0, 0>>, <<10, 10>>, <<300, 300>>, <<400, 300>>, <<400, 250>>,
            <<800, 600>>, <<-301, 10>>, <<1101, 901>>}
Deltas == (0 - MaxDelta) .. MaxDelta
BoxPts == {<<a[1] + d, a[2] + d>> : a \in Anchors, d \in Deltas}
          \cup {<<a[1] + d, a[2] - d>> : a \in Anchors, d \in Deltas}

\* Message boxes.
MsgLoadFailed == "critical: Cannot load image"
MsgNoImage    == "warning: open an image first"
MsgNoCenter   == "warning: click on the image to select a center"
MsgSaved      == "information: label saved"

\* The exported file: absent, a truncated text, or one complete document.
Absent  == [kind |-> "absent"]
Partial == [kind |-> "partial"]

(* ---------------------------------------------------------------------- *)
(* ImageLabel                                                              *)
(* ---------------------------------------------------------------------- *)

\* The three attributes of the widget as one value.
Label == [_pixmap |-> _pixmap, image_path |-> image_path,
          center_point |-> center_point]

\* QPixmap(image_path): decodes the file's bytes.
QPixmap(d, path) == Decode(d[path])

\* bool(QPoint): PyQt5 defines QPoint.__bool__ as not isNull(), and
\* QPoint(0, 0) is the null point.  bool(None) is False.
QPointBool(cp) == cp # None /\ cp # <<0, 0>>

\* bool(self._pixmap): None is false, a loaded (non-null) pixmap is true.
QPixmapBool(pm) == pm # None

\* load_image without the reset of center_point.
load_image_keeps_center(L, d, path) ==
    LET pm == Decode(d[path]) IN
    IF pm = None
    THEN [raised |-> "ValueError", label |-> L]
    ELSE [raised |-> "none",
          label  |-> [_pixmap |-> pm, image_path |-> path,
                      center_point |-> L.center_point]]

\* ImageLabel.load_image: raises ValueError before any assignment when the
\* pixmap is null; otherwise replaces the image and resets the center.
load_image(L, d, path) ==
    LET pm == QPixmap(d, path) IN
    IF pm = None
    THEN [raised |-> "ValueError", label |-> L]
    ELSE [raised |-> "none",
          label  |-> [_pixmap |-> pm, image_path |-> path,
                      center_point |-> None]]

\* ImageLabel.pixmap_size
pixmap_size(pm) == IF ~QPixmapBool(pm) THEN <<0, 0>> ELSE pm

\* _current_qrect without the clamp of the top-left corner at 0.
_current_qrect_unclamped(cp, pm) ==
    LET half == RECT_SIZE \div 2 IN
    <<cp[1] - half, cp[2] - half,
      Min(pixmap_size(pm)[1], cp[1] + half),
      Min(pixmap_size(pm)[2], cp[2] + half)>>

\* _current_qrect that re-expands a clipped box to the full side length.
_current_qrect_expanded(cp, pm) ==
    LET half == RECT_SIZE \div 2
        x1   == Max(0, cp[1] - half)
        y1   == Max(0, cp[2] - half)
    IN  <<x1, y1, Min(pixmap_size(pm)[1], x1 + RECT_SIZE),
          Min(pixmap_size(pm)[2], y1 + RECT_SIZE)>>

\* ImageLabel._current_qrect: <<x1, y1, x2, y2>> of
\* QRect(QPoint(x1, y1), QPoint(x2, y2)).
_current_qrect(cp, pm) ==
    LET half  == RECT_SIZE \div 2
        cx    == cp[1]
        cy    == cp[2]
        img_w == pixmap_size(pm)[1]
        img_h == pixmap_size(pm)[2]
    IN  <<Max(0, cx - half), Max(0, cy - half),
          Min(img_w, cx + half), Min(img_h, cy + half)>>

\* rectangle_points that checks the pixmap only and takes a missing center
\* for the origin.
rectangle_points_no_center_check(cp, pm) ==
    IF ~QPixmapBool(pm)
    THEN None
    ELSE LET rect == _current_qrect(IF cp = None THEN <<0, 0>> ELSE cp, pm) IN
         << <<Float(rect[1]), Float(rect[2])>>,
            <<Float(rect[3]), Float(rect[4])>> >>

\* ImageLabel.rectangle_points: [[left, top], [right, bottom]] as floats;
\* a QRect built from two corner points reports them back unchanged.
rectangle_points(cp, pm) ==
    IF ~(QPointBool(cp) /\ QPixmapBool(pm))
    THEN None
    ELSE LET rect == _current_qrect(cp, pm) IN
         << <<Float(rect[1]), Float(rect[2])>>,
            <<Float(rect[3]), Float(rect[4])>> >>

\* ImageLabel.mousePressEvent: the center after a press of button b at pos.
mousePressEvent(L, b, pos) ==
    IF b = "LeftButton" /\ QPixmapBool(L._pixmap)
    THEN [L EXCEPT !.center_point = pos]
    ELSE L

(* ---------------------------------------------------------------------- *)
(* MainWindow                                                              *)
(* ---------------------------------------------------------------------- *)

\* MainWindow.open_image with the file dialog returning path (None: the
\* dialog was cancelled).  ValueError is caught and reported.
open_image(L, d, path) ==
    IF path = None
    THEN [label |-> L, msgs |-> <<>>]
    ELSE LET r == load_image(L, d, path) IN
         IF r.raised = "ValueError"
         THEN [label |-> L, msgs |-> <<MsgLoadFailed>>]
         ELSE [label |-> r.label, msgs |-> <<>>]

\* The annotation document save_json builds.
Document(L, points, bytes) ==
    [kind        |-> "doc",
     version     |-> "5.8.3",
     label       |-> "d",
     points      |-> points,
     shape_type  |-> "rectangle",
     imagePath   |-> PathName(L.image_path),
     imageData   |-> B64Encode(bytes),
     imageHeight |-> pixmap_size(L._pixmap)[2],
     imageWidth  |-> pixmap_size(L._pixmap)[1]]

\* save_json without its first check.
NoImageLoaded_skipped(L) == FALSE

\* First check of save_json: no image loaded.
NoImageLoaded(L) == ~QPixmapBool(L._pixmap)

\* Outcomes of the disk operations of one export.
IOOutcomes == {"ok", "read_fails", "open_fails", "write_fails"}

\* MainWindow.save_json with the save dialog returning json_path (None:
\* cancelled), the disk operations behaving as io, and the trailing
\* open_image dialog returning next_path.
save_json(L, d, j, json_path, io, next_path) ==
    LET points == rectangle_points(L.center_point, L._pixmap)
        same   == [label |-> L, json |-> j, raised |-> "none", msgs |-> <<>>]
    IN
    IF NoImageLoaded(L) THEN [same EXCEPT !.msgs = <<MsgNoImage>>]
    ELSE IF points = None THEN [same EXCEPT !.msgs = <<MsgNoCenter>>]
    ELSE IF json_path = None THEN same
    ELSE IF io = "read_fails" THEN [same EXCEPT !.raised = "OSError"]
    ELSE IF io = "open_fails" THEN [same EXCEPT !.raised = "OSError"]
    ELSE IF io = "write_fails"
         THEN [same EXCEPT !.raised = "OSError", !.json = Partial]
    ELSE LET o == open_image(L, d, next_path) IN
         [label  |-> o.label,
          json   |-> Document(L, points, d[L.image_path]),
          raised |-> "none",
          msgs   |-> <<MsgSaved>> \o o.msgs]

(* ---------------------------------------------------------------------- *)
(* Actions                                                                 *)
(* ---------------------------------------------------------------------- *)

\* History: the file the dialog returned decodes as an image, and the
\* handler showed the message that follows a completed export.
LoadSucceeds(d, path) == path # None /\ Decode(d[path]) # None
Exported(m) == Len(m) >= 1 /\ m[1] = MsgSaved

SetLabel(L) ==
    /\ _pixmap' = L._pixmap
    /\ image_path' = L.image_path
    /\ center_point' = L.center_point

\* An exception that leaves a handler ends the process.
After(r) == IF r = "none" THEN "exec" ELSE "exit"

\* main(): MainWindow(image_path) preloads argv (uncaught ValueError ends
\* the process), then window.open_image() runs once.
Main(argv, path) ==
    /\ pc = "main"
    /\ LET pre == IF argv = None
                  THEN [raised |-> "none", label |-> Label]
                  ELSE load_image(Label, disk, argv)
           o   == open_image(pre.label, disk, path)
       IN  IF pre.raised # "none"
           THEN /\ SetLabel(pre.label)
                /\ msgs' = <<>>
                /\ raised' = pre.raised
                /\ pc' = "exit"
           ELSE /\ SetLabel(o.label)
                /\ msgs' = o.msgs
                /\ raised' = "none"
                /\ pc' = "exec"
    /\ op' = "main"
    /\ lastLeft' = None
    /\ UNCHANGED <<disk, json>>

\* The Open button.
OpenImage(path) ==
    /\ pc = "exec"
    /\ LET o == open_image(Label, disk, path) IN
       /\ SetLabel(o.label)
       /\ msgs' = o.msgs
       /\ lastLeft' = IF LoadSucceeds(disk, path) THEN None ELSE lastLeft
    /\ op' = "open_image"
    /\ raised' = "none"
    /\ pc' = "exec"
    /\ UNCHANGED <<disk, json>>

\* A mouse press on the image widget.
Click(b, pos) ==
    /\ pc = "exec"
    /\ SetLabel(mousePressEvent(Label, b, pos))
    /\ lastLeft' = IF b = "LeftButton" THEN pos ELSE lastLeft
    /\ op' = "mousePressEvent"
    /\ msgs' = <<>>
    /\ raised' = "none"
    /\ UNCHANGED <<pc, disk, json>>

\* The Save button.
SaveJson(json_path, io, next_path) ==
    /\ pc = "exec"
    /\ LET s == save_json(Label, disk, json, json_path, io, next_path) IN
       /\ SetLabel(s.label)
       /\ json' = s.json
       /\ msgs' = s.msgs
       /\ raised' = s.raised
       /\ pc' = After(s.raised)
       /\ lastLeft' = IF Exported(s.msgs) /\ LoadSucceeds(disk, next_path)
                      THEN None ELSE lastLeft
    /\ op' = "save_json"
    /\ UNCHANGED disk

\* Another program rewrites an image file.
Overwrite(p, c) ==
    /\ pc = "exec"
    /\ disk[p] # c
    /\ disk' = [disk EXCEPT ![p] = c]
    /\ op' = "disk"
    /\ msgs' = <<>>
    /\ raised' = "none"
    /\ UNCHANGED <<pc, _pixmap, image_path, center_point, json, lastLeft>>

Init ==
    /\ pc = "main"
    /\ _pixmap = None
    /\ image_path = None
    /\ center_point = None
    /\ disk = [p \in Paths |-> IF p = PathA THEN "imgA" ELSE "garbage"]
    /\ json = Absent
    /\ msgs = <<>>
    /\ raised = "none"
    /\ op = "none"
    /\ lastLeft = None

DoMain == \E argv \in Paths \cup {None}, path \in Paths \cup {None} :
              Main(argv, path)
DoOpenImage == \E path \in Paths \cup {None} : OpenImage(path)
DoClick == \E b \in Buttons, pos \in Pts : Click(b, pos)
DoSaveJson == \E jp \in {None, <<"out", "a.json">>}, io \in IOOutcomes,
                 np \in Paths \cup {None} : SaveJson(jp, io, np)
DoOverwrite == \E p \in Paths, c \in Contents : Overwrite(p, c)

Next == DoMain \/ DoOpenImage \/ DoClick \/ DoSaveJson \/ DoOverwrite

Spec == Init /\ [][Next]_vars

(* ---------------------------------------------------------------------- *)
(* Geometry specification: an image is loaded, then presses and exports    *)
(* over a dense set of locations.                                          *)
(* ---------------------------------------------------------------------- *)

NoLabel == [_pixmap |-> None, image_path |-> None, center_point |-> None]

BoxDisks == {[p \in Paths |-> IF p = PathA THEN "imgA" ELSE "imgB"],
             [p \in Paths |-> IF p = PathA THEN "imgC" ELSE "imgD"]}

InitBox ==
    \E d \in BoxDisks, p \in Paths :
        LET r == load_image(NoLabel, d, p) IN
        /\ pc = "exec"
        /\ disk = d
        /\ _pixmap = r.label._pixmap
        /\ image_path = r.label.image_path
        /\ center_point = r.label.center_point
        /\ json = Absent
        /\ msgs = <<>>
        /\ raised = "none"
        /\ op = "main"
        /\ lastLeft = None

DoClickBox == \E b \in Buttons, pos \in BoxPts : Click(b, pos)
DoSaveBox == \E np \in Paths \cup {None} :
                 SaveJson(<<"out", "a.json">>, "ok", np)

NextBox == DoClickBox \/ DoSaveBox

SpecBox == InitBox /\ [][NextBox]_vars

(* ---------------------------------------------------------------------- *)
(* Session specification with every press inside the image's rectangle.    *)
(* ---------------------------------------------------------------------- *)

DoClickInside == \E b \in Buttons, pos \in Pts :
                     /\ _pixmap # None => /\ 0 <= pos[1] /\ pos[1] <= _pixmap[1]
                                           /\ 0 <= pos[2] /\ pos[2] <= _pixmap[2]
                     /\ Click(b, pos)

NextInside == DoMain \/ DoOpenImage \/ DoClickInside \/ DoSaveJson
              \/ DoOverwrite

SpecInside == Init /\ [][NextInside]_vars

(* ---------------------------------------------------------------------- *)
(* Properties                                                              *)
(* ---------------------------------------------------------------------- *)

InImage(cp, pm) == /\ 0 <= cp[1] /\ cp[1] <= pm[1]
                   /\ 0 <= cp[2] /\ cp[2] <= pm[2]

BoxWithin(r, pm) == /\ 0 <= r[1] /\ r[1] <= r[3] /\ r[3] <= pm[1]
                    /\ 0 <= r[2] /\ r[2] <= r[4] /\ r[4] <= pm[2]

\* C1: for an image W x H (W, H >= 1) and a center with 0 <= cx <= W and
\* 0 <= cy <= H, the box computed from it has 0 <= x1 <= x2 <= W and
\* 0 <= y1 <= y2 <= H.
C1_BoxWithinImage ==
    (_pixmap # None /\ center_point # None /\ InImage(center_point, _pixmap))
        => /\ _pixmap[1] >= 1 /\ _pixmap[2] >= 1
           /\ BoxWithin(_current_qrect(center_point, _pixmap), _pixmap)

C1_Witness ==
    /\ op = "mousePressEvent"
    /\ _pixmap = <<400, 250>>
    /\ center_point = <<400, 250>>
    /\ _current_qrect(center_point, _pixmap) = <<100, 0, 400, 250>>

\* C2: for every raw center the mapper passes through, inside the image or
\* not, the box lies within [0, W] x [0, H] with x1 <= x2 and y1 <= y2.
C2_BoxWithinImageAnyCenter ==
    (_pixmap # None /\ center_point # None)
        => BoxWithin(_current_qrect(center_point, _pixmap), _pixmap)

\* The points the clipping rule prescribes for center (cx, cy) in a W x H
\* image, top-left first.
ClippedPoints(cx, cy, W, H) ==
    << <<Float(IF cx - 300 > 0 THEN cx - 300 ELSE 0),
         Float(IF cy - 300 > 0 THEN cy - 300 ELSE 0)>>,
       <<Float(IF cx + 300 < W THEN cx + 300 ELSE W),
         Float(IF cy + 300 < H THEN cy + 300 ELSE H)>> >>

\* C3: an export writes exactly the points [[max(0, cx-300), max(0, cy-300)],
\* [min(W, cx+300), min(H, cy+300)]] of the center and image it started
\* from; the box is 600 x 600 when the center is at least 300 from every
\* edge; 800x600 with (400,300) gives [[100,0],[700,600]] and with (10,10)
\* gives [[0,0],[310,310]].
C3_ExportedPoints ==
    [][(op' = "save_json" /\ Exported(msgs'))
        => LET cx == center_point[1]
               cy == center_point[2]
               W  == _pixmap[1]
               H  == _pixmap[2]
               P  == json'.points
           IN  /\ json'.kind = "doc"
               /\ P = ClippedPoints(cx, cy, W, H)
               /\ (cx >= 300 /\ cy >= 300 /\ W - cx >= 300 /\ H - cy >= 300)
                    => /\ FloatVal(P[2][1]) - FloatVal(P[1][1]) = 600
                       /\ FloatVal(P[2][2]) - FloatVal(P[1][2]) = 600
               /\ (W = 800 /\ H = 600 /\ cx = 400 /\ cy = 300)
                    => P = << <<Float(100), Float(0)>>,
                              <<Float(700), Float(600)>> >>
               /\ (W = 800 /\ H = 600 /\ cx = 10 /\ cy = 10)
                    => P = << <<Float(0), Float(0)>>,
                              <<Float(310), Float(310)>> >>]_vars

C3_Witness ==
    /\ op = "save_json"
    /\ Exported(msgs)
    /\ json.kind = "doc"
    /\ json.imageWidth = 800
    /\ json.points = << <<Float(0), Float(0)>>, <<Float(310), Float(310)>> >>

\* C4: with no image loaded, an export attempt reports the no-image error,
\* writes no file and leaves image, path and center as they were.
C4_ExportWithoutImage ==
    [][(op' = "save_json" /\ _pixmap = None)
        => /\ msgs' = <<MsgNoImage>>
           /\ raised' = "none"
           /\ json' = json
           /\ UNCHANGED <<_pixmap, image_path, center_point>>]_vars

C4_Witness ==
    /\ op = "save_json"
    /\ _pixmap = None
    /\ lastLeft # None
    /\ msgs = <<MsgNoImage>>

\* C5: with an image loaded and no click made on it, an export attempt
\* reports the no-center error (not the no-image error), writes no file and
\* leaves the session state as it was.
C5_ExportWithoutClick ==
    [][(op' = "save_json" /\ _pixmap # None /\ lastLeft = None)
        => /\ msgs' = <<MsgNoCenter>>
           /\ raised' = "none"
           /\ json' = json
           /\ UNCHANGED <<_pixmap, image_path, center_point>>]_vars

C5_Witness ==
    /\ op = "save_json"
    /\ _pixmap # None
    /\ lastLeft = None
    /\ msgs = <<MsgNoCenter>>

\* C6: a load of undecodable bytes, from the Open action or from the
\* start-up preload, reports an error and changes nothing: image, path and
\* center are as before and the session goes on, so that an export can
\* follow.
C6_FailedLoadKeepsSession ==
    [][(raised' = "ValueError"
        \/ \E i \in 1..Len(msgs') : msgs'[i] = MsgLoadFailed)
        => /\ UNCHANGED <<_pixmap, image_path, center_point>>
           /\ pc' = "exec"]_vars

\* C7: after any export attempt the target file does not exist, holds its
\* prior content, or holds one complete annotation document.
C7_NoPartialFile == json.kind \in {"absent", "doc"}

\* C8: in every annotation file written, imageWidth and imageHeight are the
\* pixel dimensions of the image embedded in imageData, and the box in
\* shapes lies within those dimensions.
C8_FileDescribesOneImage ==
    json.kind = "doc"
        => LET dims == Decode(B64Decode(json.imageData))
               P    == json.points
           IN  /\ dims = <<json.imageWidth, json.imageHeight>>
               /\ BoxWithin(<<FloatVal(P[1][1]), FloatVal(P[1][2]),
                              FloatVal(P[2][1]), FloatVal(P[2][2])>>, dims)

\* C9: the current center is absent when no image is loaded or when no left
\* press was made since the most recent successful load; otherwise it is the
\* location of the most recent left press since that load.
C9_CenterIsLastPress ==
    center_point = IF _pixmap = None THEN None ELSE lastLeft

C9_Witness ==
    /\ op = "save_json"
    /\ json.kind = "doc"
    /\ Exported(msgs)
    /\ _pixmap # None
    /\ center_point = None

\* C10: every left press accepted on a loaded image at a location with
\* 0 <= cx <= W and 0 <= cy <= H, the origin included, is a selected center:
\* rectangle_points returns a box and an export attempt does not report the
\* no-center error.
C10_EveryPressSelects ==
    (_pixmap # None /\ center_point # None /\ InImage(center_point, _pixmap))
        => /\ rectangle_points(center_point, _pixmap) # None
           /\ ~(op = "save_json" /\ msgs = <<MsgNoCenter>>)

====
